---- MODULE Spec2Model ----
(***************************************************************************)
(* Hospice ADT A01 integration service.                                    *)
(*                                                                         *)
(*   raw HL7 text -> parse_adt_a01 -> process_admit_logic                  *)
(*                -> convert_to_fhir_patient -> airbyte_send_fhir_patient  *)
(*                                                                         *)
(* Python strings are sequences of one-character strings, so that          *)
(* normalisation, trimming, splitting and slicing are computed as the      *)
(* code computes them.  Python values that are stored in dicts are tagged  *)
(* records (PyStr, PyBool, ...); a dict is a function from key names to    *)
(* such values.  A call that raises returns [ok |-> FALSE, err |-> ...].   *)
(***************************************************************************)
EXTENDS Integers, Sequences, FiniteSets, TLC

VARIABLES
    fn_arg,          \* argument of the function called directly
    fn_ret,          \* its outcome, NoReturn before the call
    now,             \* the wall clock (datetime.now), a tick counter
    env,             \* os.environ, the four settings the code reads
    d_pc,            \* position inside airbyte_send_fhir_patient
    d_in,            \* its argument
    attempt,         \* loop variable of the retry loop
    attempts,        \* local variable "attempts"
    sends,           \* number of simulated sends performed so far
    backoffs,        \* number of time.sleep(0.2) backoffs taken so far
    last_error,      \* local variable "last_error"
    d_out,           \* outcome of airbyte_send_fhir_patient
    endpoint,        \* which ingest endpoint received the request
    body,            \* the request body
    pc,              \* position inside the ingest handler
    stages,          \* the pipeline stages started so far, in order
    h_raw_hl7,       \* handler local raw_hl7
    h_parsed_hl7,    \* handler local parsed_hl7
    h_admission_info,\* handler local admission_info
    h_fhir_patient,  \* handler local fhir_patient
    response         \* the HTTP response

harness  == <<fn_arg, fn_ret>>
delivery == <<env, d_pc, d_in, attempt, attempts, sends, backoffs, last_error, d_out>>
handler  == <<endpoint, body, pc, stages, h_raw_hl7, h_parsed_hl7, h_admission_info, h_fhir_patient,
              response>>
vars     == <<fn_arg, fn_ret, now, env, d_pc, d_in, attempt, attempts, sends,
              backoffs, last_error, d_out, endpoint, body, pc, stages,
              h_raw_hl7, h_parsed_hl7, h_admission_info, h_fhir_patient, response>>

\* ---------------------------------------------------------------- bounds

\* Longest message, in lines, handed to parse_adt_a01 directly.
MaxLines == 3

\* Largest AIRBYTE_MAX_RETRIES offered.
MaxRetriesOffered == 3

\* Last tick of the clock.
MaxClock == 2

\* ------------------------------------------------------- Python values

PyNone    == [t |-> "none"]
PyStr(s)  == [t |-> "str", s |-> s]
PyBool(b) == [t |-> "bool", b |-> b]
PyInt(n)  == [t |-> "int", n |-> n]
PyList(l) == [t |-> "list", l |-> l]
PyDict(d) == [t |-> "dict", d |-> d]

\* bool(v)
Truthy(v) ==
    CASE v.t = "none" -> FALSE
      [] v.t = "str"  -> v.s # <<>>
      [] v.t = "bool" -> v.b
      [] v.t = "int"  -> v.n # 0
      [] v.t = "list" -> v.l # <<>>
      [] v.t = "dict" -> DOMAIN v.d # {}

\* a or b
PyOr(a, b) == IF Truthy(a) THEN a ELSE b

\* d.get(k, default) and d.get(k)
Get(d, k, default) == IF k \in DOMAIN d THEN d[k] ELSE default
GetOrNone(d, k) == Get(d, k, PyNone)

\* {**a, **b}
Merge(a, b) ==
    [k \in DOMAIN a \cup DOMAIN b |-> IF k \in DOMAIN b THEN b[k] ELSE a[k]]

Raise(e) == [ok |-> FALSE, err |-> e]
Return(v) == [ok |-> TRUE, val |-> v]
NoReturn == [ok |-> FALSE, err |-> "not called"]

\* ------------------------------------------------------------- strings

CR == "\r"
LF == "\n"

IsSpace(c) == c \in {" ", "\t", CR, LF}
IsDigit(c) == c \in {"0", "1", "2", "3", "4", "5", "6", "7", "8", "9"}

SetMin(S) == CHOOSE x \in S : \A y \in S : x <= y
SetMax(S) == CHOOSE x \in S : \A y \in S : x >= y

\* s[a:b] with 0 <= a, b (Python slice, clamped to the string)
Slice(s, a, b) ==
    LET hi == IF b > Len(s) THEN Len(s) ELSE b
    IN IF a >= hi THEN <<>> ELSE SubSeq(s, a + 1, hi)

\* s.strip()
Strip(s) ==
    LET keep == {i \in 1..Len(s) : ~IsSpace(s[i])}
    IN IF keep = {} THEN <<>> ELSE SubSeq(s, SetMin(keep), SetMax(keep))

\* s.replace("\r\n", "\r"): every LF that directly follows a CR is dropped.
\* Computed by halves, cutting where no CR LF pair is split.
RECURSIVE ReplaceCRLF(_)
ReplaceCRLF(s) ==
    IF Len(s) <= 1 THEN s
    ELSE IF Len(s) = 2 THEN (IF s = <<CR, LF>> THEN <<CR>> ELSE s)
    ELSE LET m   == Len(s) \div 2
             cut == IF s[m] = CR /\ s[m + 1] = LF THEN m + 1 ELSE m
         IN ReplaceCRLF(SubSeq(s, 1, cut)) \o ReplaceCRLF(SubSeq(s, cut + 1, Len(s)))

\* s.replace("\n", "\r")
ReplaceLF(s) == [i \in 1..Len(s) |-> IF s[i] = LF THEN CR ELSE s[i]]

\* s.split(sep) for a one-character separator: never an empty list
RECURSIVE Split(_, _)
Split(s, sep) ==
    LET at == {i \in 1..Len(s) : s[i] = sep}
    IN IF at = {} THEN <<s>>
       ELSE LET i == SetMin(at)
            IN <<SubSeq(s, 1, i - 1)>> \o Split(SubSeq(s, i + 1, Len(s)), sep)

\* sep.join(parts)
RECURSIVE Join(_, _)
Join(parts, sep) ==
    IF parts = <<>> THEN <<>>
    ELSE IF Len(parts) = 1 THEN parts[1]
    ELSE parts[1] \o sep \o Join(Tail(parts), sep)

\* s.upper(), on the letters the inputs use
UpperChar(c) ==
    CASE c = "m" -> "M" [] c = "f" -> "F" [] c = "x" -> "X" [] OTHER -> c
Upper(s) == [i \in 1..Len(s) |-> UpperChar(s[i])]

\* [x for x in parts if x]
RECURSIVE NonEmpty(_)
NonEmpty(parts) ==
    IF parts = <<>> THEN <<>>
    ELSE IF parts[1] = <<>> THEN NonEmpty(Tail(parts))
    ELSE <<parts[1]>> \o NonEmpty(Tail(parts))

\* str(n) of a one-digit int
DigitChar(n) ==
    CASE n = 0 -> "0" [] n = 1 -> "1" [] n = 2 -> "2" [] n = 3 -> "3" [] n = 4 -> "4"
      [] n = 5 -> "5" [] n = 6 -> "6" [] n = 7 -> "7" [] n = 8 -> "8" [] n = 9 -> "9"

\* string literals of the source
sMSH     == <<"M", "S", "H">>
sPID     == <<"P", "I", "D">>
sPV1     == <<"P", "V", "1">>
sDG1     == <<"D", "G", "1">>
sA01     == <<"A", "0", "1">>
sUNKNOWN == <<"U", "N", "K", "N", "O", "W", "N">>
sUnknown == <<"U", "n", "k", "n", "o", "w", "n">>
sCommaSp == <<",", " ">>

\* ---------------------------------------------------- hl7.parse (python-hl7)

\* text.find(c, start): 0-based index of the first c at or after start, else -1
FindFrom(text, c, start) ==
    LET at == {i \in (start + 1)..Len(text) : text[i] = c}
    IN IF at = {} THEN -1 ELSE SetMin(at) - 1

\* create_parse_plan: the separators are read from the characters that follow
\* the leading "MSH"; a text that does not begin with MSH has no plan.
create_parse_plan(strmsg) ==
    IF Slice(strmsg, 0, 3) # sMSH THEN Raise("ParseException")
    ELSE IF Len(strmsg) < 4 THEN Raise("IndexError")
    ELSE LET sep0 == strmsg[4]
             off  == FindFrom(strmsg, sep0, 4)
             seps == Slice(strmsg, 3, IF off = -1 THEN Len(strmsg) - 1 ELSE off)
         IN IF seps = <<>> THEN Raise("IndexError")
            ELSE Return([field |-> seps[1],
                         rep   |-> IF Len(seps) > 2 THEN seps[3] ELSE "~",
                         comp  |-> IF Len(seps) > 1 THEN seps[2] ELSE "^",
                         sub   |-> IF Len(seps) > 4 THEN seps[5] ELSE "&"])

\* _ParsePlan.applies at segment level
plan_applies(text, plan) ==
    \E i \in 1..Len(text) : text[i] \in {plan.field, plan.rep, plan.comp, plan.sub}

\* _split at segment level: the fields of one segment, each as its text
\* (str() of a parsed field gives back the text it was split from).  A
\* segment that begins with MSH carries its field separator as field 1.
split_segment(text, plan) ==
    IF ~plan_applies(text, plan) THEN Return(<<text>>)
    ELSE IF Slice(text, 0, 3) = sMSH
    THEN IF Len(text) < 4 THEN Raise("IndexError")
         ELSE LET sep0 == text[4]
                  off  == FindFrom(text, sep0, 4)
                  seps == Slice(text, 4, IF off = -1 THEN Len(text) - 1 ELSE off)
                  rest == Slice(text, off + 1, Len(text))
              IN Return(<<sMSH, <<sep0>>, seps>> \o
                        (IF rest = <<>> THEN <<>> ELSE Split(rest, plan.field)))
    ELSE Return(Split(text, plan.field))

\* hl7.parse: a message is the sequence of its segments, split on "\r"
hl7_parse(lines) ==
    LET strmsg == Strip(lines)
        plan   == create_parse_plan(strmsg)
    IN IF ~plan.ok THEN plan
       ELSE LET parts == Split(strmsg, CR)
                segs  == [i \in 1..Len(parts) |-> split_segment(parts[i], plan.val)]
            IN IF \E i \in 1..Len(segs) : ~segs[i].ok
               THEN Raise("IndexError")
               ELSE Return([i \in 1..Len(segs) |-> segs[i].val])

\* --------------------------------------------------------- hl7_parser.py

None == [some |-> FALSE]
Some(x) == [some |-> TRUE, x |-> x]

\* Mutant of _find_segment: takes the first segment whatever its id.
_find_segment_any(message, segment_id) ==
    LET hits == {i \in 1..Len(message) : message[i] # <<>>}
    IN IF hits = {} THEN None ELSE Some(message[SetMin(hits)])

\* The first segment whose first field is segment_id, or None.
_find_segment(message, segment_id) ==
    LET hits == {i \in 1..Len(message) :
                    /\ message[i] # <<>>
                    /\ message[i][1] = segment_id}
    IN IF hits = {} THEN None ELSE Some(message[SetMin(hits)])

\* Mutant of _get_field: takes index as HL7's 1-based field number.
_get_field_one_based(segment, index) ==
    IF ~segment.some THEN <<>>
    ELSE IF index >= 1 /\ Len(segment.x) > index - 1 THEN Strip(segment.x[index])
    ELSE <<>>

\* Field `index` (0-based) of an optional segment, trimmed; "" when absent.
_get_field(segment, index) ==
    IF ~segment.some THEN <<>>
    ELSE IF Len(segment.x) > index THEN Strip(segment.x[index + 1])
    ELSE <<>>

\* parts[i] of a Python list (0-based), trimmed, "" when out of range
PartAt(parts, i) == IF Len(parts) > i THEN Strip(parts[i + 1]) ELSE <<>>

_extract_patient_id(pid) ==
    LET raw == _get_field(pid, 3)
    IN IF raw = <<>> THEN <<>> ELSE Strip(Split(raw, "^")[1])

_extract_patient_name(pid) ==
    LET raw == _get_field(pid, 5)
    IN IF raw = <<>> THEN <<<<>>, <<>>>>
       ELSE LET parts == Split(raw, "^")
            IN <<PartAt(parts, 0), PartAt(parts, 1)>>

_extract_address(pid) ==
    LET raw == _get_field(pid, 11)
    IN IF raw = <<>> THEN <<>>
       ELSE LET parts == Split(raw, "^")
            IN Join(NonEmpty(<<PartAt(parts, 0), PartAt(parts, 2),
                               PartAt(parts, 3), PartAt(parts, 4)>>), sCommaSp)

\* int() of a string of digits
DigitVal(c) ==
    CASE c = "0" -> 0 [] c = "1" -> 1 [] c = "2" -> 2 [] c = "3" -> 3 [] c = "4" -> 4
      [] c = "5" -> 5 [] c = "6" -> 6 [] c = "7" -> 7 [] c = "8" -> 8 [] c = "9" -> 9
RECURSIVE Num(_)
Num(s) == IF s = <<>> THEN 0 ELSE 10 * Num(SubSeq(s, 1, Len(s) - 1)) + DigitVal(s[Len(s)])

AllDigits(s) == \A i \in 1..Len(s) : IsDigit(s[i])

DaysIn(y, m) ==
    IF m \in {4, 6, 9, 11} THEN 30
    ELSE IF m # 2 THEN 31
    ELSE IF (y % 4 = 0 /\ y % 100 # 0) \/ y % 400 = 0 THEN 29 ELSE 28

\* datetime.strptime(s, "%Y%m%d") succeeds, for s of 8 characters
\* (digits or letters: the inputs carry no blanks inside a date)
ValidYMD(s) ==
    /\ Len(s) = 8 /\ AllDigits(s)
    /\ Num(Slice(s, 0, 4)) >= 1
    /\ Num(Slice(s, 4, 6)) \in 1..12
    /\ Num(Slice(s, 6, 8)) \in 1..DaysIn(Num(Slice(s, 0, 4)), Num(Slice(s, 4, 6)))

\* datetime.strptime(s, "%H%M%S") gives a time datetime accepts, for s of 6
\* characters
ValidHMS(s) ==
    /\ Len(s) = 6 /\ AllDigits(s)
    /\ Num(Slice(s, 0, 2)) <= 23
    /\ Num(Slice(s, 2, 4)) <= 59
    /\ Num(Slice(s, 4, 6)) <= 59

\* strftime("%Y-%m-%d") of a parsed YYYYMMDD
IsoDate(s) == Slice(s, 0, 4) \o <<"-">> \o Slice(s, 4, 6) \o <<"-">> \o Slice(s, 6, 8)

_format_hl7_datetime(hl7_datetime) ==
    IF hl7_datetime = <<>> \/ Len(hl7_datetime) < 8 THEN hl7_datetime
    ELSE IF Len(hl7_datetime) >= 14
    THEN IF ValidYMD(Slice(hl7_datetime, 0, 8)) /\ ValidHMS(Slice(hl7_datetime, 8, 14))
         THEN IsoDate(hl7_datetime) \o <<"T">> \o Slice(hl7_datetime, 8, 10) \o <<":">>
              \o Slice(hl7_datetime, 10, 12) \o <<":">> \o Slice(hl7_datetime, 12, 14)
         ELSE hl7_datetime
    ELSE IF ValidYMD(Slice(hl7_datetime, 0, 8)) THEN IsoDate(hl7_datetime)
    ELSE hl7_datetime

\* x or default, on strings
StrOr(x, default) == IF x # <<>> THEN x ELSE default

ValueError(msg) == [ok |-> FALSE, err |-> "ValueError", msg |-> msg]

\* raw_hl7_message.replace("\r\n", "\r").replace("\n", "\r").strip()
normalized_message(raw_hl7_message) == Strip(ReplaceLF(ReplaceCRLF(raw_hl7_message)))

\* The demographic and admission entries of the dict parse_adt_a01 builds.
parse_fields(message, pid) ==
    LET name == _extract_patient_name(pid)
        pv1  == _find_segment(message, sPV1)
        admit_datetime_raw ==
            IF pv1.some THEN StrOr(_get_field(pv1, 44), _get_field(pv1, 2)) ELSE <<>>
        dg1  == _find_segment(message, sDG1)
    IN [patient_id        |-> PyStr(StrOr(_extract_patient_id(pid), sUNKNOWN)),
        family_name       |-> PyStr(StrOr(name[1], sUnknown)),
        given_name        |-> PyStr(StrOr(name[2], sUnknown)),
        dob               |-> PyStr(_get_field(pid, 7)),
        gender            |-> PyStr(Upper(_get_field(pid, 8))),
        address           |-> PyStr(_extract_address(pid)),
        phone             |-> PyStr(_get_field(pid, 13)),
        admit_datetime    |-> PyStr(_format_hl7_datetime(admit_datetime_raw)),
        primary_diagnosis |-> PyStr(IF dg1.some THEN _get_field(dg1, 3) ELSE <<>>)]

\* Mutant of parse_meta: keeps the normalised text instead of the argument.
parse_meta_normalized(raw_hl7_message) ==
    [message_type |-> PyStr(sA01),
     raw_hl7      |-> PyStr(normalized_message(raw_hl7_message))]

\* Its last two entries: the message type and the argument itself.
parse_meta(raw_hl7_message) ==
    [message_type |-> PyStr(sA01),
     raw_hl7      |-> PyStr(raw_hl7_message)]

\* The dict parse_adt_a01 returns.
parse_result(raw_hl7_message, message, pid) ==
    Merge(parse_fields(message, pid), parse_meta(raw_hl7_message))

\* Every failure leaves as ValueError("Failed to parse HL7 message: ...").
parse_adt_a01(raw_hl7_message) ==
    IF raw_hl7_message = <<>> \/ Strip(raw_hl7_message) = <<>>
    THEN ValueError("Empty HL7 message")
    ELSE LET parsed == hl7_parse(normalized_message(raw_hl7_message))
         IN IF ~parsed.ok THEN ValueError(parsed.err)
            ELSE IF parsed.val = <<>> THEN ValueError("Parsed HL7 message is empty")
            ELSE LET msh == _find_segment(parsed.val, sMSH)
                     pid == _find_segment(parsed.val, sPID)
                 IN IF ~msh.some THEN ValueError("MSH segment not found")
                    ELSE IF ~pid.some THEN ValueError("PID segment not found")
                    ELSE Return(parse_result(raw_hl7_message, parsed.val, pid))

\* ----------------------------------------------------------- adt_logic.py

\* int(s): blanks around, an optional sign, then digits; anything else raises
ParseInt(s) ==
    LET t      == Strip(s)
        signed == t # <<>> /\ t[1] \in {"-", "+"}
        digits == IF signed THEN Tail(t) ELSE t
    IN IF digits = <<>> \/ ~AllDigits(digits) THEN Raise("ValueError")
       ELSE Return(IF signed /\ t[1] = "-" THEN 0 - Num(digits) ELSE Num(digits))

\* os.getenv(name) is None (PyNone) or a string
_get_env_int(raw, default) ==
    IF raw = PyNone \/ raw = PyStr(<<>>) THEN default
    ELSE IF ParseInt(raw.s).ok THEN ParseInt(raw.s).val ELSE default

\* The defaults of HOSPICE_EOB_EVENT and HOSPICE_EOB_STAGE.
DefaultEobEvent == 210
DefaultEobStage == 2029

sCURRENT == <<"C", "U", "R", "R", "E", "N", "T">>
sPENDING == <<"P", "E", "N", "D", "I", "N", "G">>
sACTIVE  == <<"A", "C", "T", "I", "V", "E">>

\* datetime.now(timezone.utc).isoformat() at tick t
workflow_ts(t) == PyStr(<<"T", DigitChar(t)>>)

\* Lines 62-84: the workflow entries of the admission dict.
workflow_fields(parsed_hl7, ts) ==
    [episode_status                |-> PyStr(sCURRENT),
     episode_previous_status       |-> PyStr(sPENDING),
     hospice_eob_event             |-> PyInt(_get_env_int(env.HOSPICE_EOB_EVENT, DefaultEobEvent)),
     hospice_eob_stage             |-> PyInt(_get_env_int(env.HOSPICE_EOB_STAGE, DefaultEobStage)),
     hospice_eob_workflow_verified |-> PyBool(TRUE),
     soc_roc_type                  |-> PyOr(GetOrNone(parsed_hl7, "soc_roc_type"), PyStr(sUNKNOWN)),
     soc_roc_completed             |-> PyBool(TRUE),
     soc_roc_completion_timestamp  |-> ts,
     eob_closed_workflow           |-> PyBool(TRUE),
     workflow_closed_timestamp     |-> ts,
     admit_event_timestamp         |-> ts,
     admission_status              |-> PyStr(sACTIVE),
     acuity_level                  |-> PyOr(GetOrNone(parsed_hl7, "acuity_level"), PyStr(sUNKNOWN))]

\* Mutant of admission: the workflow entries alone, without the input's.
admission_workflow_only(parsed_hl7, ts) == workflow_fields(parsed_hl7, ts)

\* Mutant of admission: the input's entries are spread last and win.
admission_input_last(parsed_hl7, ts) == Merge(workflow_fields(parsed_hl7, ts), parsed_hl7)

\* Lines 60-85: {**parsed_hl7, <workflow entries>}
admission(parsed_hl7, ts) == Merge(parsed_hl7, workflow_fields(parsed_hl7, ts))

\* Mutant of resolve_mrn: patient_identifier is not consulted.
resolve_mrn_two_keys(parsed_hl7) ==
    PyOr(GetOrNone(parsed_hl7, "mrn"), GetOrNone(parsed_hl7, "patient_id"))

\* Line 48: parsed_hl7.get("mrn") or .get("patient_id") or .get("patient_identifier")
resolve_mrn(parsed_hl7) ==
    PyOr(PyOr(GetOrNone(parsed_hl7, "mrn"), GetOrNone(parsed_hl7, "patient_id")),
         GetOrNone(parsed_hl7, "patient_identifier"))

\* parsed_hl7 is any Python value; t is the tick at which the clock is read.
process_admit_logic(parsed_hl7, t) ==
    IF parsed_hl7.t # "dict" THEN ValueError("parsed_hl7 must be a dict")
    ELSE LET mrn == resolve_mrn(parsed_hl7.d)
         IN IF ~Truthy(mrn) THEN ValueError("Missing required patient identifier")
            ELSE Return(admission(parsed_hl7.d, workflow_ts(t)))

\* ------------------------------------------------------ fhir_converter.py

sMrnSystem == <<"h", "t", "t", "p", ":", "/", "/", "h", "o", "s", "p", "i", "t", "a", "l",
                ".", "o", "r", "g", "/", "m", "r", "n">>
sOfficial == <<"o", "f", "f", "i", "c", "i", "a", "l">>
sHome     == <<"h", "o", "m", "e">>
sPhone    == <<"p", "h", "o", "n", "e">>
sMale     == <<"m", "a", "l", "e">>
sFemale   == <<"f", "e", "m", "a", "l", "e">>
sGenderUnknown == <<"u", "n", "k", "n", "o", "w", "n">>
sPatient  == <<"P", "a", "t", "i", "e", "n", "t">>

\* The fhir.resources models validate a value when it is assigned.
\* A string element takes None or a non-empty str.
ValidFhirString(v) == v = PyNone \/ (v.t = "str" /\ v.s # <<>>)

\* A date element takes YYYY, YYYY-MM or YYYY-MM-DD naming a real date.
ValidFhirDate(s) ==
    \/ Len(s) = 4 /\ AllDigits(s) /\ Num(s) >= 1
    \/ /\ Len(s) = 7 /\ s[5] = "-"
       /\ AllDigits(Slice(s, 0, 4)) /\ AllDigits(Slice(s, 5, 7))
       /\ Num(Slice(s, 0, 4)) >= 1 /\ Num(Slice(s, 5, 7)) \in 1..12
    \/ /\ Len(s) = 10 /\ s[5] = "-" /\ s[8] = "-"
       /\ ValidYMD(Slice(s, 0, 4) \o Slice(s, 5, 7) \o Slice(s, 8, 10))

\* A dateTime element takes None or an ISO instant; the instants of this
\* model are the clock's readings, "T" and the tick.
ValidFhirDateTime(v) ==
    v = PyNone \/ (v.t = "str" /\ Len(v.s) = 2 /\ v.s[1] = "T" /\ IsDigit(v.s[2]))

\* A boolean element takes None or a bool.
ValidFhirBoolean(v) == v = PyNone \/ v.t = "bool"

\* Lines 38-53: "M" -> male, "F" -> female, anything else -> unknown
gender_of(gender_code) ==
    IF gender_code = <<"M">> THEN sMale
    ELSE IF gender_code = <<"F">> THEN sFemale
    ELSE sGenderUnknown

\* Lines 47-53: the first 8 characters as YYYY-MM-DD, a shorter text as it is
birth_date_of(dob) ==
    IF Len(dob) >= 8
    THEN Slice(dob, 0, 4) \o <<"-">> \o Slice(dob, 4, 6) \o <<"-">> \o Slice(dob, 6, 8)
    ELSE dob

\* json.loads(model.json()): the entries that are None are left out
WithoutNone(d) == [k \in {k \in DOMAIN d : d[k] # PyNone} |-> d[k]]

sUrlEpisode == <<"e", "p", "i", "s", "o", "d", "e", "-", "s", "t", "a", "t", "u", "s">>
sUrlSocRoc  == <<"s", "o", "c", "-", "r", "o", "c", "-", "c", "o", "m", "p", "l", "e", "t",
                 "e", "d">>
sUrlEob     == <<"e", "o", "b", "-", "w", "o", "r", "k", "f", "l", "o", "w", "-", "c", "l",
                 "o", "s", "e", "d">>
sUrlAdmit   == <<"a", "d", "m", "i", "t", "-", "t", "i", "m", "e", "s", "t", "a", "m", "p">>

\* Lines 73-91: the four extension entries, in order (urls by their last part)
extension_of(admission_info) ==
    <<[url |-> PyStr(sUrlEpisode),
       valueString |-> Get(admission_info, "episode_status", PyStr(sCURRENT))],
      [url |-> PyStr(sUrlSocRoc),
       valueBoolean |-> Get(admission_info, "soc_roc_completed", PyBool(FALSE))],
      [url |-> PyStr(sUrlEob),
       valueBoolean |-> Get(admission_info, "eob_closed_workflow", PyBool(FALSE))],
      [url |-> PyStr(sUrlAdmit),
       valueDateTime |-> GetOrNone(admission_info, "admit_event_timestamp")]>>

\* admission_info is a dict; returns the resource as a dict, or raises the
\* validation error of the first assignment the models refuse, or the
\* KeyError of the last line, which reads identifier[0]['value'].
convert_to_fhir_patient(admission_info) ==
    LET mrn_value   == Get(admission_info, "patient_id", PyStr(sUNKNOWN))
        family      == Get(admission_info, "family_name", PyStr(sUnknown))
        given       == Get(admission_info, "given_name", PyStr(sUnknown))
        gender_raw  == Get(admission_info, "gender", PyStr(<<>>))
        dob         == Get(admission_info, "dob", PyStr(<<>>))
        address     == GetOrNone(admission_info, "address")
        phone       == GetOrNone(admission_info, "phone")
        ext         == extension_of(admission_info)
    IN IF ~ValidFhirString(mrn_value) THEN Raise("ValidationError")
       ELSE IF ~ValidFhirString(family) \/ ~ValidFhirString(given)
       THEN Raise("ValidationError")
       ELSE IF gender_raw.t # "str" THEN Raise("AttributeError")
       ELSE IF Truthy(dob) /\ (dob.t # "str" \/ ~ValidFhirDate(birth_date_of(dob.s)))
       THEN Raise("ValidationError")
       ELSE IF Truthy(address) /\ ~ValidFhirString(address) THEN Raise("ValidationError")
       ELSE IF Truthy(phone) /\ ~ValidFhirString(phone) THEN Raise("ValidationError")
       ELSE IF \/ ~ValidFhirString(ext[1].valueString)
               \/ ~ValidFhirBoolean(ext[2].valueBoolean)
               \/ ~ValidFhirBoolean(ext[3].valueBoolean)
               \/ ~ValidFhirDateTime(ext[4].valueDateTime)
       THEN Raise("ValidationError")
       ELSE IF mrn_value = PyNone THEN Raise("KeyError")
       ELSE Return(WithoutNone(
            [resourceType |-> PyStr(sPatient),
             identifier   |-> PyList(<<PyDict(WithoutNone(
                                  [system |-> PyStr(sMrnSystem), value |-> mrn_value]))>>),
             name         |-> PyList(<<PyDict(WithoutNone(
                                  [family |-> family,
                                   given  |-> IF given = PyNone THEN PyNone
                                              ELSE PyList(<<given>>),
                                   use    |-> PyStr(sOfficial)]))>>),
             gender       |-> PyStr(gender_of(Upper(gender_raw.s))),
             birthDate    |-> IF Truthy(dob) THEN PyStr(birth_date_of(dob.s)) ELSE PyNone,
             address      |-> IF Truthy(address)
                              THEN PyList(<<PyDict([text |-> address, use |-> PyStr(sHome)])>>)
                              ELSE PyNone,
             telecom      |-> IF Truthy(phone)
                              THEN PyList(<<PyDict([system |-> PyStr(sPhone), value |-> phone,
                                                    use |-> PyStr(sHome)])>>)
                              ELSE PyNone,
             active       |-> PyBool(TRUE),
             extension    |-> PyList([i \in 1..4 |-> PyDict(WithoutNone(ext[i]))])]))

\* ------------------------------------------------ airbyte_integration.py

\* s.lower(), on the letters the inputs use
LowerChar(c) ==
    CASE c = "T" -> "t" [] c = "R" -> "r" [] c = "U" -> "u" [] c = "E" -> "e"
      [] c = "O" -> "o" [] c = "N" -> "n" [] c = "Y" -> "y" [] c = "S" -> "s"
      [] OTHER -> c
Lower(s) == [i \in 1..Len(s) |-> LowerChar(s[i])]

\* {"1", "true", "t", "yes", "y", "on"}
TrueWords == {<<"1">>, <<"t", "r", "u", "e">>, <<"t">>, <<"y", "e", "s">>, <<"y">>,
              <<"o", "n">>}

\* os.getenv(name) is None (PyNone) or a string
_env_bool(raw, default) ==
    IF raw = PyNone \/ raw = PyStr(<<>>) THEN default
    ELSE Lower(Strip(raw.s)) \in TrueWords

_env_int(raw, default) ==
    IF raw = PyNone \/ raw = PyStr(<<>>) THEN default
    ELSE IF ParseInt(raw.s).ok THEN ParseInt(raw.s).val ELSE default

Max2(a, b) == IF a >= b THEN a ELSE b

\* The defaults of the two settings read from the environment.
DefaultMaxRetries == 3
DefaultEnabled == TRUE

enabled == _env_bool(env.AIRBYTE_ENABLED, DefaultEnabled)

\* Mutant of max_retries: the configured value, not clamped to 1.
max_retries_unclamped == _env_int(env.AIRBYTE_MAX_RETRIES, DefaultMaxRetries)

max_retries == Max2(1, _env_int(env.AIRBYTE_MAX_RETRIES, DefaultMaxRetries))

\* Returns the resource, or raises ValueError.
_validate_fhir_patient_resource(r) ==
    IF r.t # "dict" THEN ValueError("FHIR Patient resource must be a dict")
    ELSE IF GetOrNone(r.d, "resourceType") # PyStr(sPatient)
    THEN ValueError("FHIR Patient resourceType must be 'Patient'")
    ELSE LET identifiers == GetOrNone(r.d, "identifier")
         IN IF identifiers.t # "list" \/ identifiers.l = <<>>
            THEN ValueError("FHIR Patient.identifier must exist and not be empty")
            ELSE LET first == identifiers.l[1]
                 IN IF first.t # "dict" \/ ~Truthy(GetOrNone(first.d, "value"))
                    THEN ValueError("FHIR Patient.identifier[0].value must exist and not be empty")
                    ELSE Return(r)

\* str(v) of a string or of a one-digit int
ToStr(v) == IF v.t = "str" THEN v.s ELSE <<DigitChar(v.n)>>

\* The value of the first identifier that has one, as text.
_extract_mrn(r) ==
    LET identifiers == PyOr(GetOrNone(r.d, "identifier"), PyList(<<>>)).l
        hits == {i \in 1..Len(identifiers) :
                    /\ identifiers[i].t = "dict"
                    /\ Truthy(GetOrNone(identifiers[i].d, "value"))}
    IN IF hits = {} THEN sUNKNOWN ELSE ToStr(identifiers[SetMin(hits)].d["value"])

Outcome(status, mrn, n) ==
    [status |-> status, mrn |-> mrn, stream |-> "fhir_patients", attempts |-> n]

\* Lines 82-92: read the environment, validate the resource, return
\* "skipped" when disabled, else go to the retry loop.
SendEnter ==
    /\ d_pc = "call"
    /\ LET patient == _validate_fhir_patient_resource(d_in)
       IN IF ~patient.ok
          THEN d_out' = patient /\ d_pc' = "raised"
          ELSE IF ~enabled
          THEN /\ d_out' = Return(Outcome("skipped", _extract_mrn(patient.val), 0))
               /\ d_pc' = "returned"
          ELSE d_pc' = "loop" /\ UNCHANGED d_out
    /\ UNCHANGED <<env, d_in, attempt, attempts, sends, backoffs, last_error>>
    /\ UNCHANGED <<harness, now, handler>>

\* Lines 97-99: for attempt in range(1, max_retries + 1): attempts = attempt
LoopNext ==
    /\ d_pc = "loop"
    /\ attempt < max_retries
    /\ attempt' = attempt + 1
    /\ attempts' = attempt + 1
    /\ d_pc' = "send"
    /\ UNCHANGED <<env, d_in, sends, backoffs, last_error, d_out>>
    /\ UNCHANGED <<harness, now, handler>>

\* Lines 100-110: the send of this attempt succeeds; return "success".
SendOk ==
    /\ d_pc = "send"
    /\ sends' = sends + 1
    /\ d_out' = Return(Outcome("success", _extract_mrn(d_in), attempts))
    /\ d_pc' = "returned"
    /\ UNCHANGED <<env, d_in, attempt, attempts, backoffs, last_error>>
    /\ UNCHANGED <<harness, now, handler>>

\* Mutant of may_retry: the backoff is taken after the last attempt too.
may_retry_always == TRUE

\* Line 121: another attempt follows this one.
may_retry == attempt < max_retries

\* Lines 111-123: the send of this attempt raises; the handler records the
\* error and sleeps 0.2 s when another attempt follows.
SendFail ==
    /\ d_pc = "send"
    /\ sends' = sends + 1
    /\ last_error' = PyStr(<<"e", "r", "r">>)
    /\ backoffs' = IF may_retry THEN backoffs + 1 ELSE backoffs
    /\ d_pc' = "loop"
    /\ UNCHANGED <<env, d_in, attempt, attempts, d_out>>
    /\ UNCHANGED <<harness, now, handler>>

\* Lines 125-126: the loop is over; return "failed".
LoopExit ==
    /\ d_pc = "loop"
    /\ ~(attempt < max_retries)
    /\ d_out' = Return([status |-> "failed", mrn |-> _extract_mrn(d_in),
                        stream |-> "fhir_patients", attempts |-> attempts,
                        error |-> PyOr(last_error, PyStr(sUnknown)).s])
    /\ d_pc' = "returned"
    /\ UNCHANGED <<env, d_in, attempt, attempts, sends, backoffs, last_error>>
    /\ UNCHANGED <<harness, now, handler>>

\* ----------------------------------------------------------------- main.py

HTTPException(status_code, detail) ==
    [ok |-> FALSE, err |-> "HTTPException", code |-> status_code, msg |-> detail]

\* Mutant of error_response: the error carries the resource built so far.
error_response_partial(status_code, detail) ==
    [code |-> status_code, detail |-> detail, fhir_patient |-> h_fhir_patient]

\* The response FastAPI makes of a raised HTTPException.
error_response(status_code, detail) == [code |-> status_code, detail |-> detail]

\* The two except clauses: an HTTPException is raised again as it is, any
\* other exception becomes an HTTPException with status 500.
to_response(exc) ==
    IF exc.err = "HTTPException" THEN error_response(exc.code, exc.msg)
    ELSE error_response(500, "Error processing HL7 message")

\* ingest_patient, step 1: the body is bytes that decode to a text, or not.
read_raw(b) ==
    IF b.t # "str" THEN Raise("UnicodeDecodeError")
    ELSE IF Strip(b.s) = <<>> THEN HTTPException(400, "Empty HL7 message")
    ELSE Return(Strip(b.s))

\* ingest_patient_json: the body is JSON or not; body.get needs a dict and
\* .strip() a str.
read_json(b) ==
    IF b.t = "undecodable" THEN Raise("JSONDecodeError")
    ELSE IF b.t # "dict" THEN Raise("AttributeError")
    ELSE LET v == Get(b.d, "hl7_message", PyStr(<<>>))
         IN IF v.t # "str" THEN Raise("AttributeError")
            ELSE IF Strip(v.s) = <<>>
            THEN HTTPException(400, "Missing 'hl7_message' field in JSON body")
            ELSE Return(Strip(v.s))

Receive ==
    /\ pc = "start"
    /\ LET r == IF endpoint = "raw" THEN read_raw(body) ELSE read_json(body)
       IN IF r.ok
          THEN h_raw_hl7' = PyStr(r.val) /\ pc' = "parse" /\ UNCHANGED response
          ELSE response' = to_response(r) /\ pc' = "done" /\ UNCHANGED h_raw_hl7
    /\ UNCHANGED <<endpoint, body, stages, h_parsed_hl7, h_admission_info, h_fhir_patient>>
    /\ UNCHANGED <<harness, now, delivery>>

Parse ==
    /\ pc = "parse"
    /\ stages' = Append(stages, "parse")
    /\ LET r == parse_adt_a01(h_raw_hl7.s)
       IN IF r.ok
          THEN h_parsed_hl7' = PyDict(r.val) /\ pc' = "transform" /\ UNCHANGED response
          ELSE response' = to_response(r) /\ pc' = "done" /\ UNCHANGED h_parsed_hl7
    /\ UNCHANGED <<endpoint, body, h_raw_hl7, h_admission_info, h_fhir_patient>>
    /\ UNCHANGED <<harness, now, delivery>>

Transform ==
    /\ pc = "transform"
    /\ stages' = Append(stages, "transform")
    /\ LET r == process_admit_logic(h_parsed_hl7, now)
       IN IF r.ok
          THEN h_admission_info' = PyDict(r.val) /\ pc' = "convert" /\ UNCHANGED response
          ELSE response' = to_response(r) /\ pc' = "done" /\ UNCHANGED h_admission_info
    /\ UNCHANGED <<endpoint, body, h_raw_hl7, h_parsed_hl7, h_fhir_patient>>
    /\ UNCHANGED <<harness, now, delivery>>

\* fhir_patient['identifier'][0]['value'], read by the log line of the raw
\* endpoint
logs_mrn(fhir_patient) ==
    endpoint = "raw" => "value" \in DOMAIN fhir_patient.identifier.l[1].d

Convert ==
    /\ pc = "convert"
    /\ stages' = Append(stages, "convert")
    /\ LET r == convert_to_fhir_patient(h_admission_info.d)
       IN IF ~r.ok
          THEN response' = to_response(r) /\ pc' = "done" /\ UNCHANGED h_fhir_patient
          ELSE IF ~logs_mrn(r.val)
          THEN /\ response' = to_response(Raise("KeyError"))
               /\ h_fhir_patient' = PyDict(r.val) /\ pc' = "done"
          ELSE h_fhir_patient' = PyDict(r.val) /\ pc' = "deliver" /\ UNCHANGED response
    /\ UNCHANGED <<endpoint, body, h_raw_hl7, h_parsed_hl7, h_admission_info>>
    /\ UNCHANGED <<harness, now, delivery>>

\* The handler calls airbyte_send_fhir_patient(fhir_patient).
Deliver ==
    /\ pc = "deliver"
    /\ stages' = Append(stages, "deliver")
    /\ d_pc' = "call" /\ d_in' = h_fhir_patient
    /\ pc' = "delivering"
    /\ UNCHANGED <<endpoint, body, h_raw_hl7, h_parsed_hl7, h_admission_info, h_fhir_patient,
                   response>>
    /\ UNCHANGED <<env, attempt, attempts, sends, backoffs, last_error, d_out>>
    /\ UNCHANGED <<harness, now>>

\* Mutant of delivery_fatal: a "failed" outcome is an error too.
delivery_fatal_on_failed == d_pc = "raised" \/ (d_out.ok /\ d_out.val.status = "failed")

\* The call's return value is not read; only an exception leaves the try.
delivery_fatal == d_pc = "raised"

admission_details(admission_info) ==
    [k \in {"episode_status", "hospice_eob_event", "hospice_eob_stage",
            "soc_roc_completed", "eob_closed_workflow"} |-> admission_info[k]]

\* The call has returned or raised: answer 200 with the resource, or go
\* through the except clause.
Respond ==
    /\ pc = "delivering"
    /\ d_pc \in {"returned", "raised"}
    /\ response' =
         IF delivery_fatal THEN error_response(500, "Error processing HL7 message")
         ELSE [code |-> 200,
               content |-> [status |-> "success",
                            message |-> "HL7 ADT A01 processed successfully",
                            fhir_patient |-> h_fhir_patient,
                            admission_details |-> admission_details(h_admission_info.d)]]
    /\ pc' = "done"
    /\ UNCHANGED <<endpoint, body, stages, h_raw_hl7, h_parsed_hl7, h_admission_info,
                   h_fhir_patient>>
    /\ UNCHANGED <<harness, now, delivery>>

\* ------------------------------------------------------ messages offered

\* Every MSH line offered carries its separators, so "|" separates fields.
e == <<>>
Bar == <<"|">>
Fields(fs) == Join(fs, Bar)
Blanks(n) == [i \in 1..n |-> e]

\* MSH|^~\&|||||||ADT^A01
lineMSH == sMSH \o <<"|", "^", "~", "\\", "&", "|">>
           \o Fields(Blanks(6) \o <<<<"A", "D", "T", "^", "A", "0", "1">>>>)
\* EVN|A01, a segment the parser does not read
lineEVN == <<"E", "V", "N", "|", "A", "0", "1">>
\* PID with 14 fields: id 7, name D^d, dob 19241010, gender m, an address, a phone
linePID == Fields(<<sPID, <<"1">>, e, <<"7", "^", "^", "M">>, e, <<"D", "^", "d">>, e,
                    <<"1", "9", "2", "4", "1", "0", "1", "0">>, <<"m">>, e, e,
                    <<"S", " ", "^", "^", "C", "^", "T", "^", "9">>, e, <<"5">>>>)
\* PID with 4 fields: id 8
linePIDshort == Fields(<<sPID, <<"1">>, e, <<"8">>>>)
\* PID with 11 fields: no id, no family name, a dob that is no date, text in field 10
linePID11 == Fields(<<sPID, <<"1">>, e, e, e, <<"^", "g">>, e, <<"x", "9">>, <<"f">>, e,
                      <<"Z">>>>)
\* PV1 with class I in field 2 and the admit time 20050110045253 in field 44
linePV1 == Fields(<<sPV1, <<"1">>, <<"I">>>> \o Blanks(41)
                  \o <<<<"2", "0", "0", "5", "0", "1", "1", "0", "0", "4", "5", "2", "5", "3">>>>)
\* DG1 with a diagnosis in field 3
lineDG1 == Fields(<<sDG1, <<"1">>, e, <<"D", "^", "x">>>>)

Lines == {lineMSH, lineEVN, linePID, linePIDshort, linePID11, linePV1, lineDG1, e}

\* How a client wraps the lines: leading text, line ending, trailing text.
Wraps == {[lead |-> e, eol |-> <<CR>>, trail |-> e],
          [lead |-> e, eol |-> <<LF>>, trail |-> e],
          [lead |-> <<" ">>, eol |-> <<CR, LF>>, trail |-> <<LF>>],
          [lead |-> <<LF>>, eol |-> <<CR>>, trail |-> <<" ">>]}

Messages(maxLines) ==
    {w.lead \o Join(ls, w.eol) \o w.trail :
        ls \in UNION {[1..n -> Lines] : n \in 0..maxLines}, w \in Wraps}

\* ------------------------------------------------------------ idle parts

HarnessIdle == fn_arg = PyNone /\ fn_ret = NoReturn

DeliveryIdle ==
    /\ env = [AIRBYTE_ENABLED |-> PyNone, AIRBYTE_MAX_RETRIES |-> PyNone,
              HOSPICE_EOB_EVENT |-> PyNone, HOSPICE_EOB_STAGE |-> PyNone]
    /\ d_pc = "idle" /\ d_in = PyNone
    /\ attempt = 0 /\ attempts = 0 /\ sends = 0 /\ backoffs = 0
    /\ last_error = PyNone /\ d_out = NoReturn

HandlerIdle ==
    /\ endpoint = "none" /\ body = PyNone /\ pc = "idle" /\ stages = <<>>
    /\ h_raw_hl7 = PyNone
    /\ h_parsed_hl7 = PyNone /\ h_admission_info = PyNone /\ h_fhir_patient = PyNone
    /\ response = PyNone

\* --------------------------------------- parse_adt_a01 called on its own

InitParse ==
    /\ fn_arg \in Messages(MaxLines)
    /\ fn_ret = NoReturn
    /\ now = 0
    /\ DeliveryIdle /\ HandlerIdle

CallParse ==
    /\ fn_ret = NoReturn
    /\ fn_ret' = parse_adt_a01(fn_arg)
    /\ UNCHANGED <<fn_arg, now, delivery, handler>>

NextParse == CallParse

SpecParse == InitParse /\ [][NextParse]_vars

\* ------------------------------ airbyte_send_fhir_patient called on its own

sFalse == <<"f", "a", "l", "s", "e">>

EnabledOffered ==
    {PyNone, PyStr(<<>>), PyStr(<<"t", "r", "u", "e">>), PyStr(<<" ", "T", "R", "U", "E">>),
     PyStr(sFalse), PyStr(<<"n", "o">>)}

RetriesOffered ==
    {PyNone, PyStr(<<>>), PyStr(<<"x">>), PyStr(<<"-", "1">>), PyStr(<<"0">>)}
    \cup {PyStr(<<DigitChar(n)>>) : n \in 1..MaxRetriesOffered}

SendEnvs ==
    [AIRBYTE_ENABLED : EnabledOffered, AIRBYTE_MAX_RETRIES : RetriesOffered,
     HOSPICE_EOB_EVENT : {PyNone}, HOSPICE_EOB_STAGE : {PyNone}]

Ident(v) == PyDict([system |-> PyStr(<<"u">>), value |-> v])

IdentifiersOffered ==
    {PyNone, PyStr(<<"7">>), PyList(<<>>), PyList(<<PyStr(<<"7">>)>>),
     PyList(<<PyDict([system |-> PyStr(<<"u">>)])>>),
     PyList(<<Ident(PyStr(<<>>))>>), PyList(<<Ident(PyNone)>>),
     PyList(<<Ident(PyStr(<<>>)), Ident(PyStr(<<"9">>))>>),
     PyList(<<Ident(PyStr(<<"7">>))>>), PyList(<<Ident(PyInt(7))>>)}

Resources ==
    {PyDict([identifier |-> PyList(<<Ident(PyStr(<<"7">>))>>)])}
    \cup {PyDict([resourceType |-> PyStr(t), identifier |-> i]) :
             t \in {sPatient, <<"O", "b", "s">>}, i \in IdentifiersOffered \ {PyNone}}
    \cup {PyDict([resourceType |-> PyStr(sPatient)])}

InitSend ==
    /\ env \in SendEnvs
    /\ d_in \in Resources
    /\ d_pc = "call"
    /\ attempt = 0 /\ attempts = 0 /\ sends = 0 /\ backoffs = 0
    /\ last_error = PyNone /\ d_out = NoReturn
    /\ now = 0
    /\ HarnessIdle /\ HandlerIdle

NextSend == SendEnter \/ LoopNext \/ SendOk \/ SendFail \/ LoopExit

SpecSend == InitSend /\ [][NextSend]_vars


\* ------------------------------------ process_admit_logic called on its own

Absent == [t |-> "absent"]

\* A dict from a choice, per key, of a value or of leaving the key out.
DictOf(choice) == [k \in {k \in DOMAIN choice : choice[k] # Absent} |-> choice[k]]

\* The three timestamp keys come together, with three different values.
StaleTimestamps ==
    [soc_roc_completion_timestamp |-> PyStr(<<"X">>),
     workflow_closed_timestamp    |-> PyStr(<<"Y">>),
     admit_event_timestamp        |-> PyStr(<<"Z">>)]

RecordsOffered ==
    {Merge(DictOf(c), stale) :
        c \in [mrn                : {Absent, PyNone, PyStr(<<>>), PyStr(<<"A">>)},
               patient_id         : {Absent, PyStr(<<>>), PyStr(<<"B">>)},
               patient_identifier : {Absent, PyStr(<<>>), PyStr(<<"C">>)},
               family_name        : {Absent, PyStr(<<"F">>)},
               soc_roc_type       : {Absent, PyStr(<<>>), PyStr(<<"S">>)},
               episode_status     : {Absent, PyStr(<<"O", "L", "D">>)},
               soc_roc_completed  : {Absent, PyBool(FALSE)}],
        stale \in {<<>>, StaleTimestamps}}

LogicInputs == {PyNone, PyList(<<>>)} \cup {PyDict(d) : d \in RecordsOffered}

LogicEnvs ==
    [AIRBYTE_ENABLED : {PyNone}, AIRBYTE_MAX_RETRIES : {PyNone},
     HOSPICE_EOB_EVENT : {PyNone, PyStr(<<"7">>)},
     HOSPICE_EOB_STAGE : {PyNone, PyStr(<<"x">>)}]

InitLogic ==
    /\ fn_arg \in LogicInputs
    /\ fn_ret = NoReturn
    /\ now = 0
    /\ env \in LogicEnvs
    /\ d_pc = "idle" /\ d_in = PyNone
    /\ attempt = 0 /\ attempts = 0 /\ sends = 0 /\ backoffs = 0
    /\ last_error = PyNone /\ d_out = NoReturn
    /\ HandlerIdle

\* Time passes.
Tick ==
    /\ now < MaxClock
    /\ now' = now + 1
    /\ UNCHANGED <<harness, delivery, handler>>

CallLogic ==
    /\ fn_ret = NoReturn
    /\ fn_ret' = process_admit_logic(fn_arg, now)
    /\ UNCHANGED <<fn_arg, now, delivery, handler>>

NextLogic == Tick \/ CallLogic

SpecLogic == InitLogic /\ [][NextLogic]_vars

\* -------------------------------- convert_to_fhir_patient called on its own

\* Admission records: each key left out or given one of a few values, among
\* them the values process_admit_logic writes.
AdmissionsOffered ==
    {DictOf(c) :
        c \in [patient_id            : {Absent, PyStr(<<>>), PyStr(<<"7">>)},
               family_name           : {Absent, PyStr(<<"D">>)},
               gender                : {Absent, PyStr(<<"m">>), PyStr(<<"F">>), PyStr(<<"x">>)},
               dob                   : {Absent, PyStr(<<>>), PyStr(<<"x", "9">>),
                                        PyStr(<<"1", "9", "2", "4">>),
                                        PyStr(<<"1", "9", "2", "4", "1", "0", "1", "0">>),
                                        PyStr(<<"1", "9", "2", "4", "1", "3", "4", "0">>)},
               address               : {Absent, PyStr(<<>>), PyStr(<<"S">>)},
               phone                 : {Absent, PyStr(<<"5">>)},
               episode_status        : {Absent, PyStr(sCURRENT), PyStr(<<"O", "L", "D">>)},
               soc_roc_completed     : {Absent, PyBool(TRUE), PyBool(FALSE)},
               eob_closed_workflow   : {Absent, PyBool(TRUE), PyBool(FALSE)},
               admit_event_timestamp : {Absent, workflow_ts(1)}]}

InitConvert ==
    /\ fn_arg \in {PyDict(d) : d \in AdmissionsOffered}
    /\ fn_ret = NoReturn
    /\ now = 0
    /\ DeliveryIdle /\ HandlerIdle

CallConvert ==
    /\ fn_ret = NoReturn
    /\ fn_ret' = convert_to_fhir_patient(fn_arg.d)
    /\ UNCHANGED <<fn_arg, now, delivery, handler>>

NextConvert == CallConvert

SpecConvert == InitConvert /\ [][NextConvert]_vars

\* ------------------------------------------------- the ingest endpoints

\* The texts a client posts: nothing, blanks, the admit message in several
\* shapes, a PID that the converter refuses (birth date "x9"), and texts the
\* parser refuses (PID before MSH, no PID, no MSH, no segment at all).
TextsOffered ==
    {e, <<" ", LF>>,
     Join(<<lineMSH, linePID>>, <<CR>>),
     Join(<<lineMSH, lineEVN, linePID, linePV1, lineDG1>>, <<LF>>) \o <<LF>>,
     <<" ">> \o Join(<<lineMSH, linePIDshort>>, <<CR, LF>>),
     Join(<<lineMSH, linePID11>>, <<LF>>),
     Join(<<linePID, lineMSH>>, <<LF>>),
     lineMSH,
     linePID,
     <<"x">>}

Undecodable == [t |-> "undecodable"]

\* A raw body is bytes: a text, or bytes that are not UTF-8.  A JSON body is
\* an object with or without hl7_message, another JSON value, or no JSON.
BodiesOffered(ep) ==
    IF ep = "raw"
    THEN {PyStr(t) : t \in TextsOffered} \cup {Undecodable}
    ELSE {PyDict([hl7_message |-> PyStr(t)]) : t \in TextsOffered}
         \cup {PyDict([hl7_message |-> PyNone]), PyDict([other |-> PyStr(lineMSH)]),
               PyList(<<>>), Undecodable}

IngestEnvs ==
    [AIRBYTE_ENABLED : {PyNone, PyStr(sFalse)},
     AIRBYTE_MAX_RETRIES : {PyNone, PyStr(<<"1">>), PyStr(<<"2">>)},
     HOSPICE_EOB_EVENT : {PyNone}, HOSPICE_EOB_STAGE : {PyNone, PyStr(<<"7">>)}]

Init ==
    /\ endpoint \in {"raw", "json"}
    /\ body \in BodiesOffered(endpoint)
    /\ pc = "start" /\ stages = <<>>
    /\ h_raw_hl7 = PyNone
    /\ h_parsed_hl7 = PyNone /\ h_admission_info = PyNone /\ h_fhir_patient = PyNone
    /\ response = PyNone
    /\ env \in IngestEnvs
    /\ d_pc = "idle" /\ d_in = PyNone
    /\ attempt = 0 /\ attempts = 0 /\ sends = 0 /\ backoffs = 0
    /\ last_error = PyNone /\ d_out = NoReturn
    /\ now = 0
    /\ HarnessIdle

Next ==
    \/ Tick
    \/ Receive \/ Parse \/ Transform \/ Convert \/ Deliver
    \/ SendEnter \/ LoopNext \/ SendOk \/ SendFail \/ LoopExit
    \/ Respond

Spec == Init /\ [][Next]_vars

\* ------------------------------------------------------ parser: claims

\* The largest field index the parser reads (PV1-44).
MaxFieldIndex == 44

ParseDone == fn_ret # NoReturn

\* What the text itself says, read without the parser: it is blank; it
\* holds a line that begins with a segment id; it begins with "MSH|".
Blank(raw) == \A i \in 1..Len(raw) : IsSpace(raw[i])

AtLineStart(raw, p) ==
    p = 1 \/ raw[p - 1] \in {CR, LF} \/ \A j \in 1..(p - 1) : IsSpace(raw[j])

AtFieldEnd(raw, q) ==
    q > Len(raw) \/ raw[q] \in {"|", CR, LF} \/ \A j \in q..Len(raw) : IsSpace(raw[j])

HasSegment(raw, id) ==
    \E p \in 1..(Len(raw) - 2) :
        SubSeq(raw, p, p + 2) = id /\ AtLineStart(raw, p) /\ AtFieldEnd(raw, p + 3)

BeginsWithMSHBar(raw) ==
    \E p \in 1..(Len(raw) - 3) :
        /\ SubSeq(raw, p, p + 3) = sMSH \o Bar
        /\ \A j \in 1..(p - 1) : IsSpace(raw[j])

Rejected(raw) == Blank(raw) \/ ~HasSegment(raw, sMSH) \/ ~HasSegment(raw, sPID)

C8_RawVerbatim ==
    ParseDone /\ fn_ret.ok =>
        /\ fn_ret.val.message_type = PyStr(sA01)
        /\ fn_ret.val.raw_hl7 = PyStr(fn_arg)

\* C8 witness: a record was returned for a text that normalisation changes.
C8_Witness_Denormalised ==
    /\ ParseDone /\ fn_ret.ok
    /\ normalized_message(fn_arg) # fn_arg
    /\ \E i \in 1..Len(fn_arg) : fn_arg[i] = LF

\* The segments hl7.parse makes of the argument (none when it rejects it).
SegmentsOf(raw) ==
    LET parsed == hl7_parse(normalized_message(raw))
    IN IF Blank(raw) \/ ~parsed.ok THEN <<>> ELSE parsed.val

\* C9: reading field i of a segment with fewer than i+1 fields, or of an
\* absent segment, gives ""; a message with MSH and with a PID of fewer than
\* 12 fields is parsed, with address "".
C9_FieldAccessTotal ==
    ParseDone =>
        LET message == SegmentsOf(fn_arg)
            pid     == _find_segment(message, sPID)
        IN /\ \A i \in 0..MaxFieldIndex :
                /\ _get_field(None, i) = <<>>
                /\ \A k \in 1..Len(message) :
                       i >= Len(message[k]) => _get_field(Some(message[k]), i) = <<>>
           /\ BeginsWithMSHBar(fn_arg) /\ pid.some /\ Len(pid.x) < 12 =>
                fn_ret.ok /\ fn_ret.val.address = PyStr(<<>>)

\* C9 witness: a PID of 11 fields, the last one filled, was parsed.
C9_Witness_ShortPID ==
    /\ ParseDone /\ fn_ret.ok
    /\ LET pid == _find_segment(SegmentsOf(fn_arg), sPID)
       IN pid.some /\ Len(pid.x) = 11 /\ pid.x[11] # <<>>

\* ---------------------------------------------------- delivery: claims

SendDone == d_pc \in {"returned", "raised"}

\* ENABLED=false, as the environment spells it
Disabled == env.AIRBYTE_ENABLED = PyStr(sFalse)

\* The retry budget, read off the offered settings: the configured number,
\* 3 when it is unset, empty or no number, and 1 when it is below 1.
Budget ==
    LET raw == env.AIRBYTE_MAX_RETRIES
    IN IF \E n \in 1..MaxRetriesOffered : raw = PyStr(<<DigitChar(n)>>)
       THEN CHOOSE n \in 1..MaxRetriesOffered : raw = PyStr(<<DigitChar(n)>>)
       ELSE IF raw \in {PyStr(<<"0">>), PyStr(<<"-", "1">>)} THEN 1
       ELSE 3

\* C3 as stated: airbyte_send_fhir_patient never raises; whatever the
\* resource and the configuration it returns success, failed or skipped.
C3_NeverRaises ==
    SendDone =>
        /\ d_pc = "returned" /\ d_out.ok
        /\ d_out.val.status \in {"success", "failed", "skipped"}

\* C4: with delivery enabled, attempts are numbered 1, 2, ... in order, the
\* first success returns "success" with that attempt's number, "failed" is
\* returned only after exactly Budget failed attempts, 1 <= attempts <= Budget,
\* and a backoff follows every failed attempt but the last.
C4_RetryLoop ==
    /\ d_pc = "send" =>
          /\ attempt = sends + 1 /\ attempts = attempt
          /\ attempt \in 1..Budget
          /\ backoffs = sends
    /\ d_pc = "returned" /\ d_out.val.status = "success" =>
          /\ d_out.val.attempts = sends
          /\ d_out.val.attempts \in 1..Budget
          /\ backoffs = sends - 1
    /\ d_pc = "returned" /\ d_out.val.status = "failed" =>
          /\ d_out.val.attempts = Budget
          /\ sends = Budget
          /\ backoffs = Budget - 1

\* C4 witness: "failed" was returned after three attempts and two backoffs.
C4_Witness_Exhausted ==
    /\ d_pc = "returned" /\ d_out.val.status = "failed"
    /\ d_out.val.attempts = 3 /\ sends = 3 /\ backoffs = 2

\* C5 as stated: with ENABLED=false the call returns "skipped" with
\* attempts 0 and sends nothing, for every resource.
C5_DisabledSkips ==
    Disabled /\ SendDone =>
        /\ d_pc = "returned" /\ d_out.ok
        /\ d_out.val.status = "skipped" /\ d_out.val.attempts = 0
        /\ sends = 0

\* ------------------------------------------------------- logic: claims

TimestampKeys ==
    {"soc_roc_completion_timestamp", "workflow_closed_timestamp", "admit_event_timestamp"}

\* C10: in every record process_admit_logic returns, the three timestamps
\* are equal, whatever the input carried under those keys.
C10_OneInstant ==
    fn_ret.ok =>
        /\ TimestampKeys \subseteq DOMAIN fn_ret.val
        /\ \A j, k \in TimestampKeys : fn_ret.val[j] = fn_ret.val[k]

\* C10 witness: a record was returned for an input that carried three
\* different values under the timestamp keys.
C10_Witness_StaleInput ==
    /\ fn_ret.ok
    /\ fn_arg.t = "dict"
    /\ TimestampKeys \subseteq DOMAIN fn_arg.d
    /\ \A j, k \in TimestampKeys : j # k => fn_arg.d[j] # fn_arg.d[k]
    /\ now > 0

\* ---------------------------------------------------- endpoints: claims

Answered == pc = "done"

StageOrder == <<"parse", "transform", "convert", "deliver">>

IsPrefix(a, b) == Len(a) <= Len(b) /\ a = SubSeq(b, 1, Len(a))

\* The HL7 text the request carries, when it carries one.
HasText ==
    IF endpoint = "raw" THEN body.t = "str"
    ELSE body.t = "dict" /\ "hl7_message" \in DOMAIN body.d /\ body.d.hl7_message.t = "str"

Text == IF endpoint = "raw" THEN body.s ELSE body.d.hl7_message.s

\* What the stages make of the text, computed apart from the handler: which
\* of parse, transform and convert succeed on it.
Refused == [parse |-> FALSE, transform |-> FALSE, convert |-> FALSE]

StagesOn(text) ==
    LET p == parse_adt_a01(Strip(text))
        a == process_admit_logic(PyDict(p.val), 0)
        c == convert_to_fhir_patient(a.val)
    IN IF ~p.ok THEN Refused
       ELSE IF ~a.ok THEN [Refused EXCEPT !.parse = TRUE]
       ELSE [parse |-> TRUE, transform |-> TRUE, convert |-> c.ok]

StagesOk == IF HasText /\ ~Blank(Text) THEN StagesOn(Text) ELSE Refused

\* C2 as stated: on both endpoints an empty text or one the parser rejects is
\* answered with 400, every other failure of a stage with 500, and a request
\* whose stages all succeed with 200 and status "success".
C2_StatusMapping ==
    Answered =>
        LET ok == StagesOk
        IN /\ HasText /\ ~ok.parse => response.code = 400
           /\ ok.parse /\ ~ok.convert => response.code = 500
           /\ ok.convert /\ d_pc = "returned" =>
                 response.code = 200 /\ response.content.status = "success"

\* C6: when parse, transform and convert succeed, the answer is 200 with
\* status "success" whatever delivery returned; no request whose delivery was
\* started is answered with an error.
C6_DeliveryNonFatal ==
    Answered =>
        /\ StagesOk.convert =>
              /\ response.code = 200
              /\ response.content.status = "success"
              /\ d_pc = "returned"
              /\ d_out.val.status \in {"success", "failed", "skipped"}
        /\ d_pc # "idle" => response.code = 200

\* C6 witness: delivery returned "failed" and the answer was 200 "success".
C6_Witness_FailedDelivery ==
    /\ Answered
    /\ d_pc = "returned" /\ d_out.val.status = "failed" /\ sends > 0
    /\ response.code = 200 /\ response.content.status = "success"

\* C7: the stages start in the order parse, transform, convert, deliver; a
\* stage starts only after the ones before it succeeded; when parse,
\* transform or convert fails no later stage starts, delivery is never
\* called, and the response holds an error and nothing else.
C7_OrderedAllOrNothing ==
    LET ok == StagesOk
    IN /\ IsPrefix(stages, StageOrder)
       /\ Len(stages) >= 2 => ok.parse
       /\ Len(stages) >= 3 => ok.transform
       /\ Len(stages) >= 4 => ok.convert
       /\ Len(stages) < 4 =>
             /\ d_pc = "idle" /\ d_in = PyNone /\ sends = 0 /\ attempts = 0
             /\ d_out = NoReturn
       /\ Answered /\ HasText /\ ~Blank(Text) =>
             /\ ~ok.parse => stages = SubSeq(StageOrder, 1, 1)
             /\ ok.parse /\ ~ok.transform => stages = SubSeq(StageOrder, 1, 2)
             /\ ok.transform /\ ~ok.convert => stages = SubSeq(StageOrder, 1, 3)
       /\ Answered /\ Len(stages) < 4 =>
             /\ DOMAIN response = {"code", "detail"}
             /\ response.code >= 400

\* C7 witness: the converter failed after parse and transform succeeded; the
\* request was answered with an error and delivery was never called.
C7_Witness_ConvertFailed ==
    /\ Answered
    /\ LET ok == StagesOk IN ok.transform /\ ~ok.convert
    /\ stages = SubSeq(StageOrder, 1, 3)
    /\ h_admission_info # PyNone /\ h_fhir_patient = PyNone
    /\ response.code = 500
    /\ d_pc = "idle"

\* ------------------------------------------------ logic: identity, frame

IdKeys == <<"mrn", "patient_id", "patient_identifier">>

\* The positions in IdKeys of the keys that d holds with a non-empty value.
Identified(d) ==
    {i \in 1..3 : IdKeys[i] \in DOMAIN d /\ d[IdKeys[i]] \notin {PyNone, PyStr(<<>>)}}

\* C11: process_admit_logic fails, with ValueError and no record, exactly
\* when none of mrn, patient_id, patient_identifier is present and non-empty;
\* otherwise the identifier it resolves is the value of the first of the three,
\* in that order, that is present and non-empty.
C11_IdentifierResolution ==
    fn_ret # NoReturn =>
        LET found == IF fn_arg.t = "dict" THEN Identified(fn_arg.d) ELSE {}
        IN /\ fn_ret.ok <=> found # {}
           /\ ~fn_ret.ok => fn_ret.err = "ValueError" /\ "val" \notin DOMAIN fn_ret
           /\ found # {} => resolve_mrn(fn_arg.d) = fn_arg.d[IdKeys[SetMin(found)]]

\* C11 witness: a record was returned for an input whose mrn is present and
\* empty, whose patient_id is absent and whose patient_identifier is filled.
C11_Witness_ThirdKey ==
    /\ fn_ret.ok
    /\ fn_arg.t = "dict"
    /\ "mrn" \in DOMAIN fn_arg.d /\ fn_arg.d.mrn = PyStr(<<>>)
    /\ "patient_id" \notin DOMAIN fn_arg.d
    /\ Identified(fn_arg.d) = {3}

\* The workflow keys with a fixed value.
FixedFields ==
    [episode_status                |-> PyStr(sCURRENT),
     episode_previous_status       |-> PyStr(sPENDING),
     hospice_eob_workflow_verified |-> PyBool(TRUE),
     soc_roc_completed             |-> PyBool(TRUE),
     eob_closed_workflow           |-> PyBool(TRUE),
     admission_status              |-> PyStr(sACTIVE)]

\* All the workflow keys of the admission record.
WorkflowKeys ==
    DOMAIN FixedFields \cup TimestampKeys
    \cup {"hospice_eob_event", "hospice_eob_stage", "soc_roc_type", "acuity_level"}

\* C12: the record process_admit_logic returns holds every key of the input;
\* a key that is no workflow key keeps the input's value; the fixed workflow
\* keys hold their fixed values whatever the input held there; the input
\* itself is left as it was.
C12_InputKept ==
    /\ [](fn_ret.ok =>
            /\ DOMAIN fn_arg.d \subseteq DOMAIN fn_ret.val
            /\ \A k \in DOMAIN fn_arg.d \ WorkflowKeys : fn_ret.val[k] = fn_arg.d[k]
            /\ \A k \in DOMAIN FixedFields : fn_ret.val[k] = FixedFields[k])
    /\ [][fn_arg' = fn_arg]_vars

\* C12 witness: a record was returned for an input that held a name and
\* other values under two of the fixed workflow keys.
C12_Witness_Overridden ==
    /\ fn_ret.ok
    /\ fn_arg.t = "dict"
    /\ {"family_name", "episode_status", "soc_roc_completed"} \subseteq DOMAIN fn_arg.d
    /\ fn_arg.d.episode_status # PyStr(sCURRENT)
    /\ fn_arg.d.soc_roc_completed = PyBool(FALSE)
    /\ fn_ret.val.family_name = fn_arg.d.family_name

\* --------------------------------------------------- converter: claims

\* C13 as stated: convert_to_fhir_patient fails on no admission record, and
\* identifier[0].value is the record's patient_id when that is present and
\* non-empty and "UNKNOWN" otherwise, so it is never empty.
C13_IdentifierNeverEmpty ==
    fn_ret # NoReturn =>
        /\ fn_ret.ok
        /\ LET given == GetOrNone(fn_arg.d, "patient_id")
               first == fn_ret.val.identifier.l[1].d
           IN /\ "value" \in DOMAIN first
              /\ first.value = IF given \in {PyNone, PyStr(<<>>)} THEN PyStr(sUNKNOWN)
                               ELSE given

ExtensionUrls == <<sUrlEpisode, sUrlSocRoc, sUrlEob, sUrlAdmit>>

\* C14 as stated: the extension list of a converted record has exactly four
\* entries, in the order episode-status, soc-roc-completed,
\* eob-workflow-closed, admit-timestamp; each value is the record's, and for
\* an absent key it is "CURRENT", true and true for the first three.
C14_ExtensionDefaults ==
    fn_ret.ok =>
        LET ext == fn_ret.val.extension.l
            rec == fn_arg.d
        IN /\ Len(ext) = 4
           /\ \A i \in 1..4 : ext[i].d.url = PyStr(ExtensionUrls[i])
           /\ ext[1].d.valueString = Get(rec, "episode_status", PyStr(sCURRENT))
           /\ ext[2].d.valueBoolean = Get(rec, "soc_roc_completed", PyBool(TRUE))
           /\ ext[3].d.valueBoolean = Get(rec, "eob_closed_workflow", PyBool(TRUE))
           /\ "admit_event_timestamp" \in DOMAIN rec =>
                 ext[4].d.valueDateTime = rec.admit_event_timestamp

\* C15 as stated: a request whose message parse_adt_a01 accepts passes the
\* three later stages too: the parsed patient_id is non-empty, the transform
\* and the converter return, the resource's identifier[0].value is non-empty,
\* the delivery validation accepts it, and the answer is 200.
C15_ParseIsOnlyGate ==
    Answered /\ StagesOk.parse =>
        /\ Truthy(h_parsed_hl7.d.patient_id)
        /\ h_admission_info # PyNone
        /\ h_fhir_patient # PyNone
        /\ Truthy(h_fhir_patient.d.identifier.l[1].d.value)
        /\ d_pc = "returned"
        /\ response.code = 200

====
